---- MODULE Spec2Model ----
(***************************************************************************)
(* Model of ras_balance (src/src/ras_balancing.py): bi-proportional        *)
(* scaling of a matrix towards target row and column sums.                 *)
(*                                                                         *)
(* Numbers are exact rationals <<n, d>> with d > 0 in lowest terms: the    *)
(* model computes the sums, quotients and products of the source without   *)
(* floating-point rounding.  Arrays are sequences; a matrix is a sequence  *)
(* of rows.                                                                *)
(***************************************************************************)
EXTENDS Integers, Sequences, FiniteSets, TLC

\* ------------------------------------------------------------- bounds
\* Largest matrix entry the caller supplies.
MaxEntry == 1
\* Largest entry of the strictly positive matrices.
MaxPosEntry == 2
\* Largest target sum the caller supplies.
MaxTarget == 2
\* Largest max_iter the caller supplies.
MaxIter == 2
\* Largest max_iter supplied with a strictly positive matrix.
MaxPosIter == 1
\* The caller's tolerances are 1/TolDen (tight) and MaxTol (loose).
TolDen == 4
MaxTol == 2

\* --------------------------------------------------- exact arithmetic
Abs(x) == IF x < 0 THEN 0 - x ELSE x

RECURSIVE GCD(_, _)
GCD(a, b) == IF b = 0 THEN a ELSE GCD(b, a % b)

\* The rational n/d (d # 0) in lowest terms with a positive denominator.
Rat(n, d) ==
    LET g == GCD(Abs(n), Abs(d))
        s == IF d < 0 THEN 0 - 1 ELSE 1
    IN  <<(s * n) \div g, (s * d) \div g>>

Zero == Rat(0, 1)
One == Rat(1, 1)

\* x + y over the least common denominator
RAdd(x, y) ==
    LET g == GCD(x[2], y[2])
    IN  Rat(x[1] * (y[2] \div g) + y[1] * (x[2] \div g), x[2] * (y[2] \div g))
RNeg(x) == <<0 - x[1], x[2]>>
RSub(x, y) == RAdd(x, RNeg(y))
\* x * y, cancelling across before multiplying
RMul(x, y) ==
    LET g1 == GCD(Abs(x[1]), y[2])
        g2 == GCD(Abs(y[1]), x[2])
    IN  Rat((x[1] \div g1) * (y[1] \div g2), (x[2] \div g2) * (y[2] \div g1))
\* x / y, for y # 0
RDiv(x, y) == RMul(x, Rat(y[2], y[1]))
RAbs(x) == <<Abs(x[1]), x[2]>>
\* x < y
RLess(x, y) ==
    LET g == GCD(x[2], y[2])
    IN  x[1] * (y[2] \div g) < y[1] * (x[2] \div g)

\* ndarray.sum() of a one-dimensional array
RECURSIVE Sum(_)
Sum(v) == IF v = <<>> THEN Zero ELSE RAdd(Head(v), Sum(Tail(v)))

\* balanced.shape
Rows(m) == Len(m)
Cols(m) == Len(m[1])

\* m.sum(axis=1) and m.sum(axis=0)
RowSums(m) == [i \in 1..Rows(m) |-> Sum(m[i])]
ColSums(m) == [j \in 1..Cols(m) |-> Sum([i \in 1..Rows(m) |-> m[i][j]])]

\* np.divide(targets, sums, out=np.ones_like(targets), where=sums != 0):
\* the quotient where the current sum is not zero, else the 1 of the out array.
Scalers(targets, sums) ==
    [k \in 1..Len(sums) |->
        IF sums[k] # Zero THEN RDiv(targets[k], sums[k]) ELSE One]

\* np.divide raises ValueError when the operands do not broadcast to the
\* shape of the out array, that is when the lengths differ.
Broadcasts(targets, sums) == Len(targets) = Len(sums)

\* balanced * r_scalers[:, np.newaxis]
ScaleRows(m, r) == [i \in 1..Rows(m) |-> [j \in 1..Cols(m) |-> RMul(m[i][j], r[i])]]
\* balanced * s_scalers
ScaleCols(m, s) == [i \in 1..Rows(m) |-> [j \in 1..Cols(m) |-> RMul(m[i][j], s[j])]]

\* np.abs(sums - targets).sum()
AbsDiffSigned(sums, targets) ==
    Sum([k \in 1..Len(sums) |-> RSub(sums[k], targets[k])])
AbsDiff(sums, targets) ==
    Sum([k \in 1..Len(sums) |-> RAbs(RSub(sums[k], targets[k]))])

RowDiff(m, rt) == AbsDiff(RowSums(m), rt)
ColDiff(m, ct) == AbsDiff(ColSums(m), ct)

\* row_diff + col_diff
DeviationColsOnly(m, rt, ct) == ColDiff(m, ct)
Deviation(m, rt, ct) == RAdd(RowDiff(m, rt), ColDiff(m, ct))

\* row_diff + col_diff < tolerance
MeetsToleranceRowsOnly(m, rt, ct, tol) == RLess(RowDiff(m, rt), tol)
MeetsToleranceColsOnly(m, rt, ct, tol) == RLess(ColDiff(m, ct), tol)
MeetsToleranceReversed(m, rt, ct, tol) == RLess(tol, Deviation(m, rt, ct))
MeetsTolerance(m, rt, ct, tol) == RLess(Deviation(m, rt, ct), tol)

\* matrix.copy()
Copy(m) == m

\* The caller's matrix array once the working array holds `work`: balanced
\* is a copy of it, and each product is a new array bound to the name
\* balanced, so nothing is ever stored into the caller's array.
CallerMatrixAliased(m, work) == work
CallerMatrix(m, work) == m

\* The caller's targets array once np.divide has produced `scalers`: the
\* quotients go to out=np.ones_like(targets), a new array.
DivideIntoTargets(targets, scalers) == scalers
CallerTargets(targets, scalers) == targets

\* ---------------------------------------------------------------- state
VARIABLES
    matrix,             \* the caller's array
    target_row_sums,    \* the caller's row targets
    target_col_sums,    \* the caller's column targets
    tolerance,
    max_iter,
    balanced,           \* the working array of ras_balance
    iteration,          \* the loop variable
    pc,                 \* where the call stands
    rowSteps,           \* row scalings performed
    colSteps,           \* column scalings performed
    checks              \* convergence checks performed

vars == <<matrix, target_row_sums, target_col_sums, tolerance, max_iter,
          balanced, iteration, pc, rowSteps, colSteps, checks>>

Vec1(S) == {<<a>> : a \in S}
Vec2(S) == {<<a, b>> : a \in S, b \in S}
IntRats(S) == {Rat(n, 1) : n \in S}

\* Before the call: nothing done yet.
NotStarted ==
    /\ balanced = <<>>
    /\ iteration = 0
    /\ pc = "Initialized"
    /\ rowSteps = 0
    /\ colSteps = 0
    /\ checks = 0

\* Calls that meet the documented input shape: a 2 x 2 matrix of
\* non-negative entries, non-negative targets of matching lengths, a
\* positive tolerance and max_iter >= 0.
Init ==
    /\ matrix \in Vec2(Vec2(IntRats(0..MaxEntry)))
    /\ target_row_sums \in Vec2(IntRats(0..MaxTarget))
    /\ target_col_sums \in Vec2(IntRats(0..MaxTarget))
    /\ tolerance \in {Rat(1, TolDen), Rat(MaxTol, 1)}
    /\ max_iter \in 0..MaxIter
    /\ NotStarted

\* Calls with a strictly positive matrix, strictly positive targets whose
\* grand totals agree, and at least one iteration requested.
InitPos ==
    /\ matrix \in Vec2(Vec2(IntRats(1..MaxPosEntry)))
    /\ target_row_sums \in Vec2(IntRats(1..MaxTarget))
    /\ target_col_sums \in Vec2(IntRats(1..MaxTarget))
    /\ Sum(target_row_sums) = Sum(target_col_sums)
    /\ tolerance \in {Rat(1, TolDen), Rat(MaxTol, 1)}
    /\ max_iter \in 1..MaxPosIter
    /\ NotStarted

\* Values around zero, for the calls nothing in ras_balance rules out.
AnyVals == (0 - 1)..1

\* Any call: entries, targets and tolerance of either sign, target vectors
\* of the matrix's length or shorter, max_iter possibly negative.
InitAny ==
    /\ matrix \in Vec2(Vec2(IntRats(AnyVals)))
    /\ target_row_sums \in Vec2(IntRats(AnyVals)) \cup Vec1({One})
    /\ target_col_sums \in Vec2(IntRats(AnyVals)) \cup Vec1({One})
    /\ tolerance \in IntRats(AnyVals)
    /\ max_iter \in (0 - 1)..MaxIter
    /\ NotStarted

\* for iteration in range(max_iter): where the loop goes when its variable
\* would take the value i.
LoopHeadRaises(i) == IF i < max_iter THEN "RowScaling" ELSE "Raised"
LoopHeadOffByOne(i) == IF i <= max_iter THEN "RowScaling" ELSE "MaxIterationsExceeded"
LoopHead(i) == IF i < max_iter THEN "RowScaling" ELSE "MaxIterationsExceeded"

\* Lines 11-14: take the working copy and enter the loop.
Enter ==
    /\ pc = "Initialized"
    /\ balanced' = Copy(matrix)
    /\ matrix' = CallerMatrix(matrix, balanced')
    /\ iteration' = 0
    /\ pc' = LoopHead(0)
    /\ UNCHANGED <<target_row_sums, target_col_sums, tolerance, max_iter,
                   rowSteps, colSteps, checks>>

\* Lines 16-22: the R step.  np.divide raises before anything is scaled
\* when the row targets do not have one element per row.
RowScaling ==
    /\ pc = "RowScaling"
    /\ IF Broadcasts(target_row_sums, RowSums(balanced))
       THEN LET r_scalers == Scalers(target_row_sums, RowSums(balanced))
            IN  /\ balanced' = ScaleRows(balanced, r_scalers)
                /\ matrix' = CallerMatrix(matrix, balanced')
                /\ target_row_sums' = CallerTargets(target_row_sums, r_scalers)
                /\ rowSteps' = rowSteps + 1
                /\ pc' = "ColScaling"
       ELSE /\ pc' = "Raised"
            /\ UNCHANGED <<matrix, target_row_sums, balanced, rowSteps>>
    /\ UNCHANGED <<target_col_sums, tolerance, max_iter, iteration, colSteps, checks>>

\* Lines 25-30: the S step, on the row-scaled matrix.
ColScaling ==
    /\ pc = "ColScaling"
    /\ IF Broadcasts(target_col_sums, ColSums(balanced))
       THEN LET s_scalers == Scalers(target_col_sums, ColSums(balanced))
            IN  /\ balanced' = ScaleCols(balanced, s_scalers)
                /\ matrix' = CallerMatrix(matrix, balanced')
                /\ target_col_sums' = CallerTargets(target_col_sums, s_scalers)
                /\ colSteps' = colSteps + 1
                /\ pc' = "CheckConvergence"
       ELSE /\ pc' = "Raised"
            /\ UNCHANGED <<matrix, target_col_sums, balanced, colSteps>>
    /\ UNCHANGED <<target_row_sums, tolerance, max_iter, iteration, rowSteps, checks>>

\* Lines 33-38, and the step of the for loop when the test fails: return
\* from inside the loop, go round again, or fall out to lines 40-41.
CheckConvergence ==
    /\ pc = "CheckConvergence"
    /\ checks' = checks + 1
    /\ IF MeetsTolerance(balanced, target_row_sums, target_col_sums, tolerance)
       THEN /\ pc' = "Converged"
            /\ UNCHANGED iteration
       ELSE /\ pc' = LoopHead(iteration + 1)
            /\ iteration' = IF iteration + 1 < max_iter THEN iteration + 1 ELSE iteration
    /\ UNCHANGED <<matrix, target_row_sums, target_col_sums, tolerance, max_iter,
                   balanced, rowSteps, colSteps>>

Next == Enter \/ RowScaling \/ ColScaling \/ CheckConvergence

Spec == Init /\ [][Next]_vars
SpecPos == InitPos /\ [][Next]_vars
SpecAny == InitAny /\ [][Next]_vars
\* ---------------------------------------------------------- properties
Terminal == {"Converged", "MaxIterationsExceeded"}
\* The positions from which Enter, RowScaling, ColScaling or
\* CheckConvergence takes the next step.
Running == {"Initialized", "RowScaling", "ColScaling", "CheckConvergence"}

\* sum_i |rowsum_i - row target i| + sum_j |colsum_j - col target j| of the
\* working matrix, spelled out from the sums.
MarginalDeviation ==
    RAdd(Sum([i \in 1..Len(target_row_sums) |->
                RAbs(RSub(RowSums(balanced)[i], target_row_sums[i]))]),
         Sum([j \in 1..Len(target_col_sums) |->
                RAbs(RSub(ColSums(balanced)[j], target_col_sums[j]))]))
WithinTolerance == RLess(MarginalDeviation, tolerance)

SameMatrix(a, b) ==
    /\ Rows(a) = Rows(b)
    /\ \A i \in 1..Rows(a) :
          /\ Len(a[i]) = Len(b[i])
          /\ \A j \in 1..Len(a[i]) : a[i][j] = b[i][j]

\* The preconditions the interface documents for a call.
ValidInput ==
    /\ Len(target_row_sums) = Rows(matrix)
    /\ Len(target_col_sums) = Cols(matrix)
    /\ \A i \in 1..Rows(matrix) : \A j \in 1..Cols(matrix) : ~RLess(matrix[i][j], Zero)
    /\ \A i \in 1..Len(target_row_sums) : ~RLess(target_row_sums[i], Zero)
    /\ \A j \in 1..Len(target_col_sums) : ~RLess(target_col_sums[j], Zero)
    /\ RLess(Zero, tolerance)
    /\ max_iter >= 0

\* C1: whenever the call has ended in Converged, the aggregate marginal
\* deviation of the returned matrix is below the tolerance.
C1_ConvergedWithinTolerance == pc = "Converged" => WithinTolerance

\* A call that converged on its second iteration, after real scaling.
C1_Witness == pc = "Converged" /\ iteration = 1 /\ ~SameMatrix(balanced, matrix)
C4_ExactlyMaxIterations ==
    /\ rowSteps <= max_iter /\ colSteps <= max_iter /\ checks <= max_iter
    /\ checks <= colSteps /\ colSteps <= rowSteps /\ rowSteps <= checks + 1
    /\ pc = "MaxIterationsExceeded" =>
          rowSteps = max_iter /\ colSteps = max_iter /\ checks = max_iter
    /\ pc \in Terminal \/ pc \in Running

\* The loop ran out after max_iter = 2 full iterations.
C4_Witness ==
    pc = "MaxIterationsExceeded" /\ max_iter = 2 /\ rowSteps = 2 /\ colSteps = 2

\* C5, as stated: a call that violates a precondition performs no scaling
\* step and never returns a matrix.
C5_InvalidInputRaisesFirst ==
    ~ValidInput => rowSteps = 0 /\ colSteps = 0 /\ pc \notin Terminal

ZeroRow(i) == \A j \in 1..Cols(matrix) : matrix[i][j] = Zero
RowStillZero(i) ==
    balanced # <<>> => \A j \in 1..Cols(matrix) : balanced[i][j] = Zero

\* C7, as stated: an all-zero input row with a nonzero target stays
\* all-zero, and the call neither raises nor reports convergence.
C7_ZeroRowNeverConverges ==
    \A i \in 1..Rows(matrix) :
        (ZeroRow(i) /\ target_row_sums[i] # Zero) =>
            RowStillZero(i) /\ pc # "Raised" /\ pc # "Converged"

\* C7, amended: an all-zero input row with a nonzero target stays all-zero
\* and the call does not raise; it does not report convergence when that
\* row's target is at least the tolerance.
C7_ZeroRowStaysZero ==
    \A i \in 1..Rows(matrix) :
        (ZeroRow(i) /\ target_row_sums[i] # Zero) =>
            /\ RowStillZero(i)
            /\ pc # "Raised"
            /\ ~RLess(RAbs(target_row_sums[i]), tolerance) => pc # "Converged"

\* A matrix with one all-zero row and one row with mass, iterated to the end.
C7_Witness ==
    /\ pc = "MaxIterationsExceeded" /\ checks >= 1
    /\ \E i \in 1..2 :
          /\ ZeroRow(i) /\ ~RLess(target_row_sums[i], tolerance)
          /\ \E k \in 1..2 : ~ZeroRow(k) /\ balanced[k] # matrix[k]

GrandTotalGap == RAbs(RSub(Sum(target_row_sums), Sum(target_col_sums)))
RunsToExhaustion ==
    /\ pc # "Converged" /\ pc # "Raised"
    /\ pc = "MaxIterationsExceeded" => checks = max_iter

\* C8, as stated: when the grand totals of the targets differ, no
\* convergence check succeeds and the call ends in MaxIterationsExceeded
\* after max_iter iterations.
C8_MismatchNeverConverges == GrandTotalGap # Zero => RunsToExhaustion

\* C8, amended: the same when the grand totals differ by at least the
\* tolerance.
C8_MismatchAtLeastTolerance ==
    ~RLess(GrandTotalGap, tolerance) => RunsToExhaustion

\* Targets whose totals differ by the tolerance or more, iterated to the end.
C8_Witness ==
    /\ ~RLess(GrandTotalGap, tolerance) /\ RLess(Zero, GrandTotalGap)
    /\ pc = "MaxIterationsExceeded" /\ checks = max_iter /\ max_iter >= 1

\* C9, as stated: with max_iter = 0 the result is the input unchanged, no
\* scaling is done, and convergence is reported exactly when the input is
\* already within tolerance.
C9_ZeroIterations ==
    (max_iter = 0 /\ pc \in Terminal) =>
        /\ SameMatrix(balanced, matrix)
        /\ rowSteps = 0 /\ colSteps = 0
        /\ pc = "Converged" <=> WithinTolerance

AlreadyBalanced ==
    /\ \A i \in 1..Rows(matrix) : RowSums(matrix)[i] = target_row_sums[i]
    /\ \A j \in 1..Cols(matrix) : ColSums(matrix)[j] = target_col_sums[j]

\* C10: when the input already has every row and column sum on target and
\* max_iter >= 1, the working matrix stays equal to the input and the call
\* ends in Converged at its first check (loop variable 0).
C10_BalancedInputIsFixedPoint ==
    (AlreadyBalanced /\ max_iter >= 1) =>
        /\ pc # "MaxIterationsExceeded" /\ pc # "Raised"
        /\ balanced # <<>> => SameMatrix(balanced, matrix)
        /\ pc = "Converged" => iteration = 0 /\ checks = 1

\* A balanced input with mass in it, returned as converged.
C10_Witness ==
    /\ AlreadyBalanced /\ pc = "Converged" /\ rowSteps = 1
    /\ \E i \in 1..2 : ~ZeroRow(i)
====
